---------------------------- MODULE Spec2Model ----------------------------
(***************************************************************************)
(* A model of dbaserh.py, the Python wrapper around libdbaserh: the DBASE  *)
(* object, the native calls each of its methods issues, the polling loop   *)
(* of measure_list_mode and the histogram / calibration post-processing of *)
(* count and spectra.                                                      *)
(*                                                                         *)
(* Numbers.  Python floats that the program divides or fits are modelled   *)
(* by exact rationals [n |-> numerator, d |-> denominator] (d > 0); times  *)
(* are integers counted in ticks.  The fine gain and the pulse width are   *)
(* integers counted in units of 2^-26, so that the narrowing to a          *)
(* C float (24 significant bits) is computed and not assumed.  Every       *)
(* integer of the model lies inside the range of a C int.                  *)
(***************************************************************************)
EXTENDS Integers, Sequences, FiniteSets, TLC

VARIABLES
    args,       \* the arguments the caller passes to DBASE(...)
    self,       \* the fields of the DBASE object (Nil before construction)
    pc,         \* "new", "failed", "idle", "loop" (in the loop of measure_list_mode),
                \* "post" (in count / spectra, after measure_list_mode)
    op,         \* the method that is running, or that ran last
    err,        \* the exception the last method raised, or "none"
    calls,      \* the native calls issued by the method that is running / ran last
    hv,         \* the high voltage, as last commanded through the library
    acq,        \* the acquisition, as last commanded (start / stop)
    open,       \* the device handle returned by init is open
    now,        \* measure_list_mode: TIME.time(), in ticks since the call began
    cycles,     \* measure_list_mode: local `cycles`
    c,          \* measure_list_mode: the loop variable, cycles completed
    data,       \* measure_list_mode: the written prefix of the local buffer `data`
    polled,     \* what the library reported at each poll of this call (history)
    amplitude,  \* measure_list_mode: local `amplitude`
    timestamp,  \* measure_list_mode: local `timestamp`
    result,     \* the value the last method returned
    effects     \* what the last method plotted / wrote to a file

vars == <<args, self, pc, op, err, calls, hv, acq, open, now, cycles, c, data,
          polled, amplitude, timestamp, result, effects>>

--------------------------------------------------------------------------
(* Bounds of the model *)

\* the library reports 0..MaxRead events at a poll, or a full buffer
MaxRead == 2
\* calibration lists have at most MaxCal pairs
MaxCal == 3
\* calibration channels and energies are drawn from 1..MaxCalValue
MaxCalValue == 3

(* Program constants *)

\* DATA * 2048: the length of the local buffer
BUFLEN == 2048
\* the number of events requested from libdbase_read_lm_packets
READ_LEN == 2048
\* np.histogram(..., bins=1023, range=(0, 1023))
HIST_BINS == 1023
HIST_LO == 0
HIST_HI == 1023
\* the factor of lower_edges + 0.5*np.diff(bin_edges), as the rational 1/2
HALF == [n |-> 1, d |-> 2]
\* a C float keeps 24 significant bits
FLT_MANT_DIG == 24

Nil == [none |-> TRUE]

--------------------------------------------------------------------------
(* Arithmetic *)

Abs(x) == IF x < 0 THEN -x ELSE x

RECURSIVE GCD(_, _)
GCD(a, b) == IF b = 0 THEN a ELSE GCD(b, a % b)

\* the rational n/d in lowest terms, with a positive denominator (d # 0)
Rat(n, d) ==
    LET g == GCD(Abs(n), Abs(d))
        s == IF d < 0 THEN -1 ELSE 1
    IN  [n |-> s * (n \div g), d |-> s * (d \div g)]

RatInt(k) == [n |-> k, d |-> 1]

\* arithmetic on rationals; the results are not reduced
RatAdd(p, q) == [n |-> p.n * q.d + q.n * p.d, d |-> p.d * q.d]

RatSub(p, q) == [n |-> p.n * q.d - q.n * p.d, d |-> p.d * q.d]

RatMul(p, q) == [n |-> p.n * q.n, d |-> p.d * q.d]

\* p and q are the same number
RatEq(p, q) == p.n * q.d = q.n * p.d

RECURSIVE SumSeq(_)
SumSeq(s) == IF s = <<>> THEN 0 ELSE Head(s) + SumSeq(Tail(s))

\* Python floats: a finite value (in ticks) or an infinity
Fin(v) == [inf |-> FALSE, v |-> v]

Inf == [inf |-> TRUE, v |-> 1]

\* int(x) of a rational a/b (b # 0): truncation toward zero
IntTrunc(a, b) ==
    LET q == Abs(a) \div Abs(b)
    IN  IF (a < 0) # (b < 0) THEN -q ELSE q

--------------------------------------------------------------------------
(* ctypes conversions of the constructor *)

\* ctypes.c_int(v): every integer of the model lies in -2^31 .. 2^31 - 1,
\* where c_int keeps the value
CInt(v) == v

\* the number of bits of n >= 0
BitLen(n) == CHOOSE k \in 0..30 : n < 2^k /\ (k = 0 \/ n >= 2^(k-1))

\* a magnitude (in units of 2^-26) rounded to FLT_MANT_DIG significant
\* bits, ties to even
CFloatMag(n) ==
    LET e == BitLen(n)
    IN  IF e <= FLT_MANT_DIG THEN n
        ELSE LET s == 2^(e - FLT_MANT_DIG)
                 q == n \div s
                 r == n % s
             IN  IF 2*r > s \/ (2*r = s /\ q % 2 = 1) THEN (q + 1) * s ELSE q * s

\* ctypes.c_float(v)
CFloat(v) == IF v < 0 THEN -CFloatMag(-v) ELSE CFloatMag(v)

--------------------------------------------------------------------------
(* The calibration fit *)

\* the sequence of the products x[i]*y[i]
Products(x, y) == [i \in 1..Len(x) |-> x[i] * y[i]]

\* the line fitted with the channels and the energies exchanged
PolyFitSwapped(x, y) ==
    LET n   == Len(x)
        Sx  == SumSeq(x)
        Sy  == SumSeq(y)
        Syy == SumSeq(Products(y, y))
        Sxy == SumSeq(Products(x, y))
        D   == n * Syy - Sy * Sy
    IN  IF D # 0
        THEN <<Rat(n * Sxy - Sx * Sy, D), Rat(Sx * Syy - Sy * Sxy, D)>>
        ELSE <<Rat(Sx, 2 * n * y[1]), Rat(Sx, 2 * n)>>

\* np.polyfit(x, y, 1): the least-squares line through the pairs (x[i], y[i]),
\* as the coefficients <<slope, intercept>>.  When all x[i] are equal the
\* system has rank 1 and the solver returns the solution of least norm of the
\* column-scaled system, slope mean(y)/(2*x0) and intercept mean(y)/2.
\* Needs Len(x) = Len(y) > 0 and no list of zeros only.
PolyFit(x, y) ==
    LET n   == Len(x)
        Sx  == SumSeq(x)
        Sy  == SumSeq(y)
        Sxx == SumSeq(Products(x, x))
        Sxy == SumSeq(Products(x, y))
        D   == n * Sxx - Sx * Sx
    IN  IF D # 0
        THEN <<Rat(n * Sxy - Sx * Sy, D), Rat(Sy * Sxx - Sx * Sxy, D)>>
        ELSE <<Rat(Sy, 2 * n * x[1]), Rat(Sy, 2 * n)>>

\* np.poly1d(p)(x) for a polynomial of degree 1
Poly1d(p, x) == RatAdd(RatMul(p[1], x), p[2])

\* np.polyfit raises TypeError for an empty x and for lists of unequal length
PolyFitRaises(x, y) == Len(x) = 0 \/ Len(x) # Len(y)

--------------------------------------------------------------------------
(* The arguments of the constructor *)

\* serials[0] when no device was found, and the serial of example.py
SerialValues == {0, 16291937}

\* the default, the ends of the documented range 50-1200 V, and values outside
HvtValues == {1100, 50, 1200, 49, 1201, 0, -1}

\* in units of 2^-26: 0.5 (default), 1.2, 2.0, 0.0
FgnValues == {33554432, 80530637, 134217728, 0}

\* in units of 2^-26: 0.75 (default), 2.0, 1.0 + 2^-26, -0.75
PwValues == {50331648, 134217728, 67108865, -50331648}

\* the lists of length n over S
Lists(S, n) == [1..n -> S]

\* the lists of length 0..n over S
ListsUpTo(S, n) == UNION {Lists(S, k) : k \in 0..n}

CalValues == 1..MaxCalValue

\* the defaults of __init__
DefaultArgs ==
    [serial |-> 0, hvt |-> 1100, fgn |-> 33554432, pw |-> 50331648,
     realtime |-> Inf, sleept |-> Fin(1),
     energy |-> <<1, 2, 3>>, channel |-> <<1, 2, 3>>]

\* the arguments the constructor is checked with: every calibration, and
\* every serial, voltage, gain and pulse width
CtorArgs ==
    {[DefaultArgs EXCEPT !.energy = e, !.channel = ch] :
        e \in ListsUpTo(CalValues, MaxCal), ch \in ListsUpTo(CalValues, MaxCal)}
    \cup
    {[DefaultArgs EXCEPT !.serial = s, !.hvt = h, !.fgn = g, !.pw = w] :
        s \in SerialValues, h \in HvtValues, g \in FgnValues, w \in PwValues}

--------------------------------------------------------------------------
(* Native calls *)

\* the handle libdbase_init returns for a serial
Handle(serial) == [serial |-> serial]

\* a call of the library function f on handle det with the further arguments a
Call(f, det, a) == [f |-> f, det |-> det, a |-> a]

NoResult == [amplitude |-> <<>>, timestamp |-> <<>>, bins |-> <<>>, hist |-> <<>>]

NoEffects == [plot |-> FALSE, csv |-> FALSE]

\* what a sequence of native calls leaves commanded, from <<hv, acq, open>>
RECURSIVE Commanded(_, _)
Commanded(st, cs) ==
    IF cs = <<>> THEN st
    ELSE LET f == Head(cs).f
             nx == CASE f = "libdbase_init"   -> <<st[1], st[2], TRUE>>
                     [] f = "libdbase_hv_on"  -> <<TRUE, st[2], st[3]>>
                     [] f = "libdbase_hv_off" -> <<FALSE, st[2], st[3]>>
                     [] f = "libdbase_start"  -> <<st[1], TRUE, st[3]>>
                     [] f = "libdbase_stop"   -> <<st[1], FALSE, st[3]>>
                     [] f = "libdbase_close"  -> <<st[1], st[2], FALSE>>
                     [] OTHER -> st
         IN  Commanded(nx, Tail(cs))

--------------------------------------------------------------------------
(* DBASE.__init__ *)

\* the fields set by the parameter definitions, with det as returned by init
Fields(a) ==
    [serial |-> CInt(a.serial), realtime |-> a.realtime, hvt |-> CInt(a.hvt),
     fgn |-> CFloat(a.fgn), pw |-> CFloat(a.pw), sleept |-> a.sleept,
     energy |-> a.energy, channel |-> a.channel,
     det |-> Handle(CInt(a.serial)), fit |-> Nil]

\* libdbase_init(self.serial)
InitCalls(f) == <<Call("libdbase_init", Nil, <<f.serial>>)>>

\* the parameters set before the high voltage is turned on
SetupCallsParametersFirst(f) ==
    << Call("libdbase_set_hv", f.det, <<f.hvt>>),
       Call("libdbase_set_fgn", f.det, <<f.fgn>>),
       Call("libdbase_set_pw", f.det, <<f.pw>>),
       Call("libdbase_hv_on", f.det, <<>>),
       Call("libdbase_gs_off", f.det, <<>>),
       Call("libdbase_zs_off", f.det, <<>>),
       Call("libdbase_print_status", f.det, <<>>) >>

\* hv_on, gs_off, zs_off, set_hvt, set_fgn, set_pw, status
SetupCalls(f) ==
    << Call("libdbase_hv_on", f.det, <<>>),
       Call("libdbase_gs_off", f.det, <<>>),
       Call("libdbase_zs_off", f.det, <<>>),
       Call("libdbase_set_hv", f.det, <<f.hvt>>),
       Call("libdbase_set_fgn", f.det, <<f.fgn>>),
       Call("libdbase_set_pw", f.det, <<f.pw>>),
       Call("libdbase_print_status", f.det, <<>>) >>

Construct ==
    /\ pc = "new"
    /\ op' = "__init__"
    /\ LET f == Fields(args)
       IN  IF PolyFitRaises(args.channel, args.energy)
           THEN /\ pc' = "failed"
                /\ err' = "TypeError"
                /\ self' = Nil
                /\ calls' = InitCalls(f)
           ELSE /\ pc' = "idle"
                /\ err' = "none"
                /\ self' = [f EXCEPT !.fit = PolyFit(args.channel, args.energy)]
                /\ calls' = InitCalls(f) \o SetupCalls(f)
    /\ LET st == Commanded(<<hv, acq, open>>, calls')
       IN  hv' = st[1] /\ acq' = st[2] /\ open' = st[3]
    /\ UNCHANGED <<args, now, cycles, c, data, polled, amplitude,
                   timestamp, result, effects>>

--------------------------------------------------------------------------
(* The state before DBASE(...) is called *)

InitWith(S) ==
    /\ args \in S
    /\ self = Nil
    /\ pc = "new"
    /\ op = "none"
    /\ err = "none"
    /\ calls = <<>>
    /\ hv = FALSE
    /\ acq = FALSE
    /\ open = FALSE
    /\ now = 0
    /\ cycles = 0
    /\ c = 0
    /\ data = <<>>
    /\ polled = <<>>
    /\ amplitude = <<>>
    /\ timestamp = <<>>
    /\ result = NoResult
    /\ effects = NoEffects

(* The constructor alone, over all its arguments *)

InitCtor == InitWith(CtorArgs)

NextCtor == Construct

SpecCtor == InitCtor /\ [][NextCtor]_vars

--------------------------------------------------------------------------
(* The simple methods: each forwards one call to the library *)

SimpleMethods ==
    {"hv_on", "hv_off", "gs_on", "gs_off", "zs_on", "zs_off", "set_hvt",
     "set_fgn", "set_pw", "status", "start", "stop", "clear", "close"}

\* the call a simple method issues
NativeCall(m, f) ==
    CASE m = "hv_on"   -> Call("libdbase_hv_on", f.det, <<>>)
      [] m = "hv_off"  -> Call("libdbase_hv_off", f.det, <<>>)
      [] m = "gs_on"   -> Call("libdbase_gs_on", f.det, <<>>)
      [] m = "gs_off"  -> Call("libdbase_gs_off", f.det, <<>>)
      [] m = "zs_on"   -> Call("libdbase_zs_on", f.det, <<>>)
      [] m = "zs_off"  -> Call("libdbase_zs_off", f.det, <<>>)
      [] m = "set_hvt" -> Call("libdbase_set_hv", f.det, <<f.hvt>>)
      [] m = "set_fgn" -> Call("libdbase_set_fgn", f.det, <<f.fgn>>)
      [] m = "set_pw"  -> Call("libdbase_set_pw", f.det, <<f.pw>>)
      [] m = "status"  -> Call("libdbase_print_status", f.det, <<>>)
      [] m = "start"   -> Call("libdbase_start", f.det, <<>>)
      [] m = "stop"    -> Call("libdbase_stop", f.det, <<>>)
      [] m = "clear"   -> Call("libdbase_clear_all", f.det, <<>>)
      [] m = "close"   -> Call("libdbase_close", f.det, <<>>)

\* no call of measure_list_mode is in progress or was the last call: its
\* frame is gone
NoFrame ==
    /\ now' = 0
    /\ cycles' = 0
    /\ c' = 0
    /\ data' = <<>>
    /\ polled' = <<>>
    /\ amplitude' = <<>>
    /\ timestamp' = <<>>

\* a method that returns nothing has run and issued the calls cs
Ran(m, cs) ==
    /\ op' = m
    /\ err' = "none"
    /\ calls' = cs
    /\ LET st == Commanded(<<hv, acq, open>>, cs)
       IN  hv' = st[1] /\ acq' = st[2] /\ open' = st[3]
    /\ result' = NoResult
    /\ effects' = NoEffects
    /\ NoFrame
    /\ UNCHANGED <<args, self, pc>>

Simple(m) ==
    /\ pc = "idle"
    /\ open
    /\ Ran(m, <<NativeCall(m, self)>>)

(* DBASE.end_process *)

\* the handle closed while the high voltage is still on
EndProcessCallsCloseFirst(f) ==
    << NativeCall("stop", f), NativeCall("clear", f), NativeCall("close", f),
       NativeCall("hv_off", f), NativeCall("status", f) >>

\* stop, clear, hv_off, status, close
EndProcessCalls(f) ==
    << NativeCall("stop", f), NativeCall("clear", f), NativeCall("hv_off", f),
       NativeCall("status", f), NativeCall("close", f) >>

EndProcess ==
    /\ pc = "idle"
    /\ open
    /\ Ran("end_process", EndProcessCalls(self))

--------------------------------------------------------------------------
(* DBASE.measure_list_mode *)

MeasureMethods == {"measure_list_mode", "count", "spectra"}

\* the amplitudes the device reports: below, at the ends of and above the
\* histogram range
AmpValues == {-1, 0, 1022, 1023, 1024}

\* the first amplitude of a packet of several events, and the amplitude
\* of the events after it: out of and in range, two channels of one bin, a
\* repeated amplitude
AmpPairs ==
    { <<-1, 0>>, <<0, 1022>>, <<1022, 1023>>, <<1023, 1024>>, <<1024, -1>>,
      <<1023, 1023>> }

\* what libdbase_read_lm_packets may write at one poll: no event, one event,
\* up to MaxRead events, or the READ_LEN events requested
Packets ==
    {<<>>}
    \cup {<<a>> : a \in AmpValues}
    \cup {[i \in 1..n |-> IF i = 1 THEN pr[1] ELSE pr[2]] :
            n \in 2..MaxRead, pr \in AmpPairs}
    \cup {[i \in 1..READ_LEN |-> a] : a \in {1023}}

\* round(self.realtime/self.sleept) in the place of int(...)
CyclesRounded(realtime, sleept) ==
    IF sleept.v = 0 THEN [raises |-> "ZeroDivisionError", v |-> 0]
    ELSE IF realtime.inf THEN [raises |-> "OverflowError", v |-> 0]
    ELSE [raises |-> "none",
          v |-> IntTrunc(2 * realtime.v * sleept.v + sleept.v * sleept.v,
                         2 * sleept.v * sleept.v)]

\* int(self.realtime/self.sleept), or the exception it raises
Cycles(realtime, sleept) ==
    IF sleept.v = 0 THEN [raises |-> "ZeroDivisionError", v |-> 0]
    ELSE IF realtime.inf THEN [raises |-> "OverflowError", v |-> 0]
    ELSE [raises |-> "none", v |-> IntTrunc(realtime.v, sleept.v)]

\* a measurement that stops the acquisition it started
MeasureCallsStopped(f) ==
    << Call("libdbase_set_list_mode", f.det, <<>>),
       Call("libdbase_start", f.det, <<>>),
       Call("libdbase_stop", f.det, <<>>) >>

\* set_list_mode, start
MeasureCalls(f) ==
    << Call("libdbase_set_list_mode", f.det, <<>>),
       Call("libdbase_start", f.det, <<>>) >>

\* TIME.sleep(self.sleept); libdbase_read_lm_packets(det, data, 2048, read, tme)
PollCalls(f) ==
    << Call("sleep", Nil, <<f.sleept.v>>),
       Call("libdbase_read_lm_packets", f.det, <<READ_LEN>>) >>

\* the buffer after the library has written packet p over its first entries
Written(buf, p) == p \o SubSeq(buf, Len(p) + 1, Len(buf))

\* data[e] for a Python index e of the buffer (zero where never written)
DataAt(buf, e) == IF e + 1 <= Len(buf) THEN buf[e + 1] ELSE 0

\* the indices of a loop that starts at 1
LoopIndicesFromOne(read) == [i \in 1..read |-> i]

\* the indices e the inner loop visits, in order: range(read.value)
LoopIndices(read) == [i \in 1..read |-> i - 1]

\* the amplitudes the inner loop appends: data[e].amp for each e
Drained(buf, es) == [i \in 1..Len(es) |-> DataAt(buf, es[i])]

\* data[e] raises IndexError for an index at or beyond the end of the buffer
IndexRaises(es) == \E i \in 1..Len(es) : es[i] >= BUFLEN

\* the timestamps the inner loop appends: TIME.time() once per event
Stamps(n, t) == [i \in 1..n |-> t]

\* the method m is called: lines up to the loop
MeasureBegin(m) ==
    /\ pc = "idle"
    /\ open
    /\ op' = m
    /\ calls' = MeasureCalls(self)
    /\ LET st == Commanded(<<hv, acq, open>>, calls')
       IN  hv' = st[1] /\ acq' = st[2] /\ open' = st[3]
    /\ LET cy == Cycles(self.realtime, self.sleept)
       IN  /\ err' = cy.raises
           /\ pc' = IF cy.raises = "none" THEN "loop" ELSE "idle"
           /\ cycles' = cy.v
    /\ now' = 0
    /\ c' = 0
    /\ data' = <<>>
    /\ polled' = <<>>
    /\ amplitude' = <<>>
    /\ timestamp' = <<>>
    /\ result' = NoResult
    /\ effects' = NoEffects
    /\ UNCHANGED <<args, self>>

\* one cycle of the loop: sleep, read the packets, append them
Poll ==
    /\ pc = "loop"
    /\ c < cycles
    /\ IF self.sleept.v < 0
       THEN \* TIME.sleep raises for a negative length
            /\ pc' = "idle"
            /\ err' = "ValueError"
            /\ UNCHANGED <<now, calls, c, data, polled, amplitude, timestamp>>
       ELSE \E p \in Packets :
            LET read == Len(p)
                es == LoopIndices(read)
            IN  /\ now' = now + self.sleept.v
                /\ calls' = calls \o PollCalls(self)
                /\ data' = Written(data, p)
                /\ polled' = Append(polled, p)
                /\ IF IndexRaises(es)
                   THEN /\ pc' = "idle"
                        /\ err' = "IndexError"
                        /\ UNCHANGED <<c, amplitude, timestamp>>
                   ELSE /\ amplitude' = amplitude \o Drained(data', es)
                        /\ timestamp' = timestamp \o Stamps(Len(es), now')
                        /\ c' = c + 1
                        /\ UNCHANGED <<pc, err>>
    /\ UNCHANGED <<args, self, op, hv, acq, open, cycles, result, effects>>

--------------------------------------------------------------------------
(* The histogram of count and spectra *)

\* a histogram whose last bin is open on the right
InRangeHalfOpen(a) == HIST_LO <= a /\ a < HIST_HI

\* np.histogram keeps the values inside the closed range
InRange(a) == HIST_LO <= a /\ a <= HIST_HI

\* the bin of a value without the closed last bin
BinIndexOpen(a) == ((a - HIST_LO) * HIST_BINS) \div (HIST_HI - HIST_LO)

\* the bin of a value of the range: bins of equal width, the last one closed
BinIndex(a) ==
    LET i == ((a - HIST_LO) * HIST_BINS) \div (HIST_HI - HIST_LO)
    IN  IF i = HIST_BINS THEN i - 1 ELSE i

\* hist of np.histogram(amp, bins=HIST_BINS, range=(HIST_LO, HIST_HI));
\* entry k + 1 is the count of bin k
Histogram(amp) ==
    LET kept == SelectSeq(amp, InRange)
        idx == [i \in 1..Len(kept) |-> BinIndex(kept[i])]
        present == {idx[i] : i \in 1..Len(idx)}
    IN  [k \in 1..HIST_BINS |->
            IF (k - 1) \in present
            THEN Cardinality({i \in 1..Len(idx) : idx[i] = k - 1})
            ELSE 0]

\* one edge too few
BinEdgesShort ==
    [j \in 1..HIST_BINS |->
        Rat(HIST_LO * HIST_BINS + (j - 1) * (HIST_HI - HIST_LO), HIST_BINS)]

\* bin_edges of np.histogram: HIST_BINS + 1 edges, evenly spaced
BinEdges ==
    [j \in 1..(HIST_BINS + 1) |->
        Rat(HIST_LO * HIST_BINS + (j - 1) * (HIST_HI - HIST_LO), HIST_BINS)]

\* np.resize(bin_edges, len(bin_edges)-1)
LowerEdges == SubSeq(BinEdges, 1, Len(BinEdges) - 1)

\* np.diff(bin_edges)
Diff(e) == [j \in 1..(Len(e) - 1) |-> RatSub(e[j + 1], e[j])]

\* lower_edges + 0.5*np.diff(bin_edges)
BinCentres ==
    LET d == Diff(BinEdges)
    IN  [k \in 1..Len(LowerEdges) |-> RatAdd(LowerEdges[k], RatMul(HALF, d[k]))]

\* self.fit(bins)
Energies(fit, bins) == [k \in 1..Len(bins) |-> Poly1d(fit, bins[k])]

\* the values a caller passes for plot and output: True, False, and 1
\* (which is neither)
PyArgs == {"True", "False", "1"}

\* `x is True`
IsTrue(x) == x = "True"

\* `x is not False`
IsNotFalse(x) == x # "False"

\* measure_list_mode returns amplitude, timestamp
MeasureResult == [NoResult EXCEPT !.amplitude = amplitude, !.timestamp = timestamp]

\* count returns channel, hist
CountResult == [NoResult EXCEPT !.bins = BinCentres, !.hist = Histogram(amplitude)]

\* spectra returns energy, hist
SpectraResult ==
    [NoResult EXCEPT !.bins = Energies(self.fit, BinCentres),
                     !.hist = Histogram(amplitude)]

\* what count / spectra called with plot and output shows and writes
Effects(m, plot, output) ==
    IF m = "count"
    THEN [plot |-> IsTrue(plot), csv |-> IsTrue(output)]
    ELSE [plot |-> IsTrue(plot), csv |-> IsNotFalse(output)]

\* the loop is over: measure_list_mode returns amplitude, timestamp, to its
\* caller or to count / spectra
MeasureReturn ==
    /\ pc = "loop"
    /\ c >= cycles
    /\ IF op = "measure_list_mode"
       THEN pc' = "idle" /\ result' = MeasureResult
       ELSE pc' = "post" /\ UNCHANGED result
    /\ UNCHANGED <<args, self, op, err, calls, hv, acq, open, now, cycles, c,
                   data, polled, amplitude, timestamp, effects>>

\* count / spectra after measure_list_mode: histogram, plot, file, return
Bin ==
    /\ pc = "post"
    /\ pc' = "idle"
    /\ result' = IF op = "count" THEN CountResult ELSE SpectraResult
    /\ \E plot \in PyArgs, output \in PyArgs : effects' = Effects(op, plot, output)
    /\ UNCHANGED <<args, self, op, err, calls, hv, acq, open, now, cycles, c,
                   data, polled, amplitude, timestamp>>

--------------------------------------------------------------------------
(* The object and its caller *)

\* realtime and sleept: the pairs of these, and 3 over 2
RealtimeValues == {Inf, Fin(-1), Fin(0), Fin(1), Fin(2)}

SleeptValues == {Fin(-1), Fin(0), Fin(1), Fin(2)}

\* the calibrations of the measurements: the default, and lists the line
\* does not pass through
MainCalibrations ==
    { <<<<1, 2, 3>>, <<1, 2, 3>>>>, <<<<1, 2, 3>>, <<1, 3, 2>>>>,
      <<<<1, 3>>, <<3, 2>>>>, <<<<>>, <<>>>> }

MainArgs ==
    {[DefaultArgs EXCEPT !.realtime = rt, !.sleept = st] :
        rt \in RealtimeValues, st \in SleeptValues}
    \cup {[DefaultArgs EXCEPT !.realtime = Fin(3), !.sleept = Fin(2)]}
    \cup {[DefaultArgs EXCEPT !.realtime = Fin(1), !.sleept = Fin(1),
                              !.channel = cal[1], !.energy = cal[2]] :
            cal \in MainCalibrations}

Init == InitWith(MainArgs)

Next ==
    \/ Construct
    \/ \E m \in SimpleMethods : Simple(m)
    \/ EndProcess
    \/ \E m \in MeasureMethods : MeasureBegin(m)
    \/ Poll
    \/ MeasureReturn
    \/ Bin

Spec == Init /\ [][Next]_vars

\* the measurement loop runs on: a sleep ends and a call of the library returns
FairSpec == Spec /\ WF_vars(Poll) /\ WF_vars(MeasureReturn)

--------------------------------------------------------------------------
(* Properties *)

\* the sum of s[lo..hi]
RECURSIVE SumRange(_, _, _)
SumRange(s, lo, hi) ==
    IF lo > hi THEN 0
    ELSE IF lo = hi THEN s[lo]
    ELSE LET mid == (lo + hi) \div 2
         IN  SumRange(s, lo, mid) + SumRange(s, mid + 1, hi)

\* the number of entries of s that are in the set S
CountIn(s, S) == Cardinality({i \in 1..Len(s) : s[i] \in S})

\* the method m has returned (it did not raise)
Returned(m) == pc = "idle" /\ op = m /\ err = "none"

HistReturned == Returned("count") \/ Returned("spectra")

\* C1 (as claimed): the counts returned by count() and spectra() sum to the
\* number of amplitude samples, whatever the amplitudes are.
C1_SumIsAllSamples ==
    HistReturned => SumRange(result.hist, 1, Len(result.hist)) = Len(amplitude)

\* C1 (amended): the counts returned by count() and spectra() sum to the
\* number of amplitude samples that lie in 0..1023; samples below 0 or
\* above 1023 are counted in no bin.
C1_SumIsSamplesInRange ==
    HistReturned =>
        SumRange(result.hist, 1, Len(result.hist)) = CountIn(amplitude, 0..1023)

\* C1 witness: count() returned for a stream with a sample in the range and a
\* sample outside it.
C1_Witness ==
    /\ Returned("count")
    /\ CountIn(amplitude, 0..1023) > 0
    /\ CountIn(amplitude, 0..1023) < Len(amplitude)

\* C2: count() and spectra() return two arrays of exactly 1023 entries, for
\* every amplitude stream and whatever plot and output are.
C2_ArraysHave1023Entries ==
    HistReturned => Len(result.bins) = 1023 /\ Len(result.hist) = 1023

\* C2 witness: spectra() returned for an empty stream, having plotted and
\* written its file.
C2_Witness ==
    /\ Returned("spectra")
    /\ amplitude = <<>>
    /\ effects.plot /\ effects.csv
    /\ Len(result.bins) = 1023

\* the names of the functions called, in order
Names(cs) == [i \in 1..Len(cs) |-> cs[i].f]

\* C3: end_process issues stop, clear_all, hv_off, print_status, close in this
\* order, each on the handle of the object, so that when it has returned the
\* acquisition is stopped, the high voltage is off and the handle is closed,
\* the high voltage having been turned off before the handle was closed.
C3_EndProcessOrder ==
    op = "end_process" =>
        /\ Names(calls) = << "libdbase_stop", "libdbase_clear_all", "libdbase_hv_off",
                             "libdbase_print_status", "libdbase_close" >>
        /\ \A i \in 1..Len(calls) : calls[i].det = self.det
        /\ ~acq /\ ~hv /\ ~open

\* C3 witness: end_process has returned, its last call having closed the handle.
C3_Witness == op = "end_process" /\ calls[5].f = "libdbase_close" /\ ~open

\* C4 (as claimed): with the default realtime (infinity) and a positive
\* sleept, a measurement method that has been called is polling: it has not
\* returned and it has not raised.
C4_ContinuousByDefault ==
    (self # Nil /\ op \in MeasureMethods /\ self.realtime.inf /\ self.sleept.v > 0)
        => (pc = "loop" /\ err = "none")

\* the calls of a measurement that has completed n cycles
MeasurementCalls(n) ==
    [i \in 1..(2 + 2*n) |->
        IF i = 1 THEN Call("libdbase_set_list_mode", self.det, <<>>)
        ELSE IF i = 2 THEN Call("libdbase_start", self.det, <<>>)
        ELSE IF i % 2 = 1 THEN Call("sleep", Nil, <<self.sleept.v>>)
        ELSE Call("libdbase_read_lm_packets", self.det, <<2048>>)]

\* floor(realtime / sleept), and zero when realtime < sleept
FloorCycles ==
    IF self.realtime.v < self.sleept.v THEN 0
    ELSE self.realtime.v \div self.sleept.v

\* a measurement method was called with a finite realtime and a positive sleept
FiniteMeasurement ==
    self # Nil /\ op \in MeasureMethods /\ ~self.realtime.inf /\ self.sleept.v > 0

C5_Cycles ==
    FiniteMeasurement =>
        /\ err = "none"
        /\ c <= FloorCycles
        /\ calls = MeasurementCalls(c)
        /\ pc # "loop" => c = FloorCycles
        /\ (Returned("measure_list_mode") /\ FloorCycles = 0) =>
                (result.amplitude = <<>> /\ result.timestamp = <<>>)

\* C5: for a finite realtime and a positive sleept, measure_list_mode sets
\* list mode, starts the acquisition once, then runs floor(realtime/sleept)
\* cycles (none when realtime < sleept, returning two empty lists), each one
\* sleep of sleept followed by one read_lm_packets call asking for 2048
\* events; and the loop ends: measure_list_mode returns.
C5_FixedCycles ==
    /\ [] C5_Cycles
    /\ (FiniteMeasurement /\ pc = "loop") ~> (FiniteMeasurement /\ pc # "loop")

\* C5 witness: a measurement with realtime 3 and sleept 2 has returned after
\* its one cycle.
C5_Witness ==
    /\ Returned("measure_list_mode")
    /\ self.realtime = Fin(3) /\ self.sleept = Fin(2)
    /\ c = 1 /\ Len(calls) = 4

\* the constructor has returned
Constructed == op = "__init__" /\ pc = "idle"

\* the fit maps every calibration channel to its energy
MapsBack ==
    \A i \in 1..Len(args.channel) :
        RatEq(Poly1d(self.fit, RatInt(args.channel[i])), RatInt(args.energy[i]))

\* the pairs (x[i], y[i]) lie on one line y = m*x + b
OnOneLine(x, y) ==
    /\ \A i, j \in 1..Len(x) : x[i] = x[j] => y[i] = y[j]
    /\ \A i, j, k \in 1..Len(x) :
            (y[j] - y[i]) * (x[k] - x[i]) = (y[k] - y[i]) * (x[j] - x[i])

\* C6 (as claimed): the fit built by the constructor maps each calibration
\* channel back to its energy, for any list of calibration pairs.
C6_FitMapsBack == Constructed => MapsBack

\* C6 (amended): the fit built by the constructor maps each calibration
\* channel back to its energy exactly when the calibration pairs lie on one
\* straight line energy = m*channel + b; for any other list it is the
\* least-squares line, which misses at least one pair.
C6_FitMapsBackIffOnOneLine ==
    Constructed => (MapsBack <=> OnOneLine(args.channel, args.energy))

\* C6 witness: three pairs on a falling line, mapped back.
C6_Witness ==
    /\ Constructed
    /\ args.channel = <<1, 2, 3>> /\ args.energy = <<3, 2, 1>>
    /\ MapsBack

\* the calls of a constructor that forwards hvt, fgn and pw as h, g and w
ConstructorCalls(h, g, w) ==
    LET det == Handle(args.serial)
    IN  << Call("libdbase_init", Nil, <<args.serial>>),
           Call("libdbase_hv_on", det, <<>>),
           Call("libdbase_gs_off", det, <<>>),
           Call("libdbase_zs_off", det, <<>>),
           Call("libdbase_set_hv", det, <<h>>),
           Call("libdbase_set_fgn", det, <<g>>),
           Call("libdbase_set_pw", det, <<w>>),
           Call("libdbase_print_status", det, <<>>) >>

SinglePrecision(x) ==
    x = 0 \/ \E k \in 0..30 : x % (2^k) = 0 /\ Abs(x) \div (2^k) < 2^24

\* v is x as a C float: a single-precision number within half a unit in the
\* last place of x, and x itself when x is one
Narrowed(x, v) ==
    /\ SinglePrecision(v)
    /\ SinglePrecision(x) => v = x
    /\ Abs(v - x) * (2^25) <= 2^BitLen(Abs(x))

C8_Step ==
    /\ op' \in MeasureMethods => (hv' = hv /\ open' = open /\ acq')
    /\ (hv /\ ~hv') => op' \in {"hv_off", "end_process"}
    /\ (acq /\ ~acq') => op' \in {"stop", "end_process"}
    /\ (open /\ ~open') => op' \in {"close", "end_process"}

\* C8: nothing is released unless the caller asks: the constructor leaves the
\* high voltage on and the handle open; measure_list_mode, count and spectra
\* leave them so, whether they return or raise, and leave the acquisition
\* started (none of them issues a stop); only an explicit hv_off, stop, close
\* or end_process of the caller changes that.
C8_NoRelease ==
    /\ [] (Constructed => (hv /\ open))
    /\ [][C8_Step]_vars

\* C8 witness: count() has raised, and the high voltage is on, the
\* acquisition started and the handle open.
C8_Witness ==
    /\ op = "count" /\ pc = "idle" /\ err = "OverflowError"
    /\ hv /\ acq /\ open

\* the packets of the polls, one after the other
RECURSIVE Flatten(_)
Flatten(ps) == IF ps = <<>> THEN <<>> ELSE Head(ps) \o Flatten(Tail(ps))

\* the read counts of the polls
ReadCounts == [i \in 1..Len(polled) |-> Len(polled[i])]

\* C9: measure_list_mode neither drops, duplicates nor reorders the events the
\* library reports: its amplitude list is the concatenation, in poll order and
\* buffer order, of the first read.value entries of the buffer after each
\* poll; the amplitude and timestamp lists have the same length, the sum of
\* the read counts; no index of the buffer at or beyond 2048 is read (no read
\* count being above 2048); and these lists are what the method returns.
C9_NoDropDuplicateReorder ==
    (op \in MeasureMethods /\ err # "ValueError") =>
        /\ \A i \in 1..Len(polled) : Len(polled[i]) <= 2048
        /\ err # "IndexError"
        /\ amplitude = Flatten(polled)
        /\ Len(timestamp) = Len(amplitude)
        /\ Len(amplitude) = SumSeq(ReadCounts)
        /\ Returned("measure_list_mode") =>
                (result.amplitude = amplitude /\ result.timestamp = timestamp)

\* C9 witness: measure_list_mode returned after a poll that filled the buffer
\* and a later poll that reported fewer events.
C9_Witness ==
    /\ Returned("measure_list_mode")
    /\ Len(polled) = 2
    /\ Len(polled[1]) = 2048
    /\ Len(polled[2]) = 2 /\ polled[2][1] # polled[2][2]

\* the amplitudes that occur in the sequence s
Amplitudes(s) == {s[i] : i \in 1..Len(s)}

\* for each k of K, entry k + 1 of h is the number of entries of s equal to k
HoldsChannels(h, s, K) ==
    LET amps == Amplitudes(s)
    IN  \A k \in K : h[k + 1] = IF k \in amps THEN CountIn(s, {k}) ELSE 0

\* the bin centre k + 0.5
Centre(k) == [n |-> 2*k + 1, d |-> 2]

\* the fit at k + 0.5: slope * (k + 0.5) + intercept
FitAtCentre(k) ==
    [n |-> self.fit[1].n * (2*k + 1) * self.fit[2].d + 2 * self.fit[2].n * self.fit[1].d,
     d |-> 2 * self.fit[1].d * self.fit[2].d]

\* channel value k is reported as k + 0.5 by count, as the fit at k + 0.5 by spectra
C10_Bins ==
    \A k \in 0..1022 :
        RatEq(result.bins[k + 1], IF op = "count" THEN Centre(k) ELSE FitAtCentre(k))

\* C10 (as claimed): count() and spectra() return, for the same stream, the
\* same counts: bin k (0 <= k <= 1022) holds the number of amplitudes equal to
\* channel k; the bins are the centres k + 0.5, and the fit at them.
C10_BinHoldsChannel ==
    HistReturned =>
        /\ Len(result.hist) = 1023 /\ Len(result.bins) = 1023
        /\ HoldsChannels(result.hist, amplitude, 0..1022)
        /\ C10_Bins

\* C10 (amended): count() and spectra() return, for the same stream, the same
\* counts: bin k holds the number of amplitudes equal to channel k for
\* 0 <= k <= 1021, and bin 1022 holds the number of amplitudes equal to 1022
\* or to 1023; the bins are the centres k + 0.5, and the fit at them; each
\* amplitude in 0..1023 is counted in exactly one bin.
C10_LastBinHoldsTwoChannels ==
    HistReturned =>
        /\ Len(result.hist) = 1023 /\ Len(result.bins) = 1023
        /\ HoldsChannels(result.hist, amplitude, 0..1021)
        /\ result.hist[1023] = CountIn(amplitude, {1022, 1023})
        /\ SumRange(result.hist, 1, 1023) = CountIn(amplitude, 0..1023)
        /\ C10_Bins

\* C10 witness: spectra() returned, with a calibration that is not the
\* identity, for a stream with channel 1022 and channel 1023.
C10_Witness ==
    /\ Returned("spectra")
    /\ {1022, 1023} \subseteq Amplitudes(amplitude)
    /\ self.fit # <<Rat(1, 1), Rat(0, 1)>>
    /\ result.hist[1023] >= 2

==========================================================================
